---- MODULE Spec2Model ----
(***************************************************************************)
(* The dbt project adapter of lightdash: DbtBaseProjectAdapter compiles a  *)
(* dbt manifest into Explores.  The state machine follows the code of      *)
(* compileAllExplores between its suspension points (the awaits); the      *)
(* translator functions it imports (attachTypesToModels, convertExplores,  *)
(* getSchemaStructureFromDbtModels, normaliseModelDatabase) and            *)
(* isSupportedDbtAdapter are modelled from their specified contracts.      *)
(***************************************************************************)
EXTENDS Naturals, Sequences, FiniteSets, TLC

(***************************************************************************)
(* Bounds of the model.                                                    *)
(***************************************************************************)
\* The longest list of nodes a manifest holds.
MaxNodes == 2

(***************************************************************************)
(* Values.                                                                 *)
(***************************************************************************)
\* JavaScript's undefined (a missing field) and null.
Undefined == "undefined"

Null == "null"

\* A column with no declared type, a model with no join.
NoType == "none"

NoJoin == "none"

\* The database normaliseModelDatabase writes in place of a null database.
ActiveDatabase(adapterType) == "db_" \o adapterType

\* manifest.metadata.adapter_type values the dbt client may report.
AdapterTypes == {"bigquery", "unknown_warehouse"}

isSupportedDbtAdapter(metadata) == metadata.adapter_type \in {"bigquery"}

TableRef(database, schema, name) ==
    [database |-> database, schema |-> schema, name |-> name]

\* The diagnostics ajv leaves in validator.errors for a node; none when the
\* node matches the schema.
NoErrors == <<>>

MissingNameErrors ==
    << [instancePath |-> "", message |-> "must have required property 'name'"],
       [instancePath |-> "/meta", message |-> "must be object"] >>

BadColumnsErrors ==
    << [instancePath |-> "/columns", message |-> "must be object"] >>

(***************************************************************************)
(* The nodes a manifest is drawn from.  Nodes are keyed by unique_id in    *)
(* manifest.nodes, so a manifest holds each at most once; a node that has  *)
(* a name has a name of its own.                                           *)
(***************************************************************************)
\* A valid model whose column declares no type: its type must come from the
\* warehouse catalog.
NodeOrders ==
    [unique_id |-> "model.orders", name |-> "orders", resource_type |-> "model",
     database |-> "db_bigquery", schema |-> "sch", table |-> "orders",
     columns |-> << [name |-> "status", declared |-> NoType] >>,
     joins |-> NoJoin, ajvErrors |-> NoErrors]

\* A valid model with a null database, a column that declares its type and a
\* join to the model orders.
NodeUsers ==
    [unique_id |-> "model.users", name |-> "users", resource_type |-> "model",
     database |-> Null, schema |-> "sch", table |-> "users",
     columns |-> << [name |-> "id", declared |-> NoType],
                    [name |-> "plan", declared |-> "string"] >>,
     joins |-> "orders", ajvErrors |-> NoErrors]

\* A model that fails the schema: the required name is missing.
NodeNameless ==
    [unique_id |-> "model.nameless", name |-> Undefined, resource_type |-> "model",
     database |-> "db_bigquery", schema |-> "sch", table |-> "raw",
     columns |-> << [name |-> "x", declared |-> NoType] >>,
     joins |-> NoJoin, ajvErrors |-> MissingNameErrors]

\* A model that fails the schema and has a name.
NodeEvents ==
    [unique_id |-> "model.events", name |-> "events", resource_type |-> "model",
     database |-> "db_bigquery", schema |-> "sch", table |-> "raw",
     columns |-> <<>>, joins |-> NoJoin, ajvErrors |-> BadColumnsErrors]

\* A node of another resource kind.
NodeSeed ==
    [unique_id |-> "seed.countries", name |-> "countries", resource_type |-> "seed",
     database |-> "db_bigquery", schema |-> "sch", table |-> "raw",
     columns |-> << [name |-> "x", declared |-> NoType] >>,
     joins |-> NoJoin, ajvErrors |-> NoErrors]

NodePool == {NodeOrders, NodeUsers, NodeNameless, NodeEvents, NodeSeed}

MetricGood ==
    [unique_id |-> "metric.total", model |-> "orders", ajvErrors |-> NoErrors]

MetricBad1 ==
    [unique_id |-> "metric.bad1", model |-> "orders",
     ajvErrors |-> << [instancePath |-> "/type", message |-> "must be string"] >>]

MetricBad2 ==
    [unique_id |-> "metric.bad2", model |-> "users",
     ajvErrors |-> << [instancePath |-> "", message |-> "must have required property 'sql'"] >>]

\* The lists of at most n distinct elements of S.
ListsOf(S, n) ==
    { s \in UNION { [1..k -> S] : k \in 0..n } :
        \A i, j \in DOMAIN s : i # j => s[i] # s[j] }

NodeLists == ListsOf(NodePool, MaxNodes)

\* The lists of metrics a manifest is drawn from: none, valid ones, and
\* invalid ones before and after others.
MetricLists ==
    { <<>>, << MetricGood >>, << MetricBad1 >>, << MetricGood, MetricBad1 >>,
      << MetricBad1, MetricGood >>, << MetricBad1, MetricBad2 >>,
      << MetricBad2, MetricBad1 >> }

(***************************************************************************)
(* The warehouse: its live schema is a set of (table, column, type)        *)
(* entries, at most one type per column.                                   *)
(***************************************************************************)
Entry(ref, column, type) == [ref |-> ref, column |-> column, type |-> type]

OrdersRef == TableRef("db_bigquery", "sch", "orders")

UsersRef == TableRef("db_bigquery", "sch", "users")

RawRef == TableRef("db_bigquery", "sch", "raw")

WarehouseFull ==
    { Entry(OrdersRef, "status", "string"), Entry(UsersRef, "id", "number"),
      Entry(UsersRef, "plan", "string"), Entry(RawRef, "x", "string") }

\* The column orders.status has another type and the column users.plan
\* does not exist.
WarehouseDrifted ==
    { Entry(OrdersRef, "status", "number"), Entry(UsersRef, "id", "number"),
      Entry(RawRef, "x", "string") }

WarehouseSchemas == {WarehouseFull, WarehouseDrifted}

(***************************************************************************)
(* Errors and the outcome of a call that may throw.                        *)
(***************************************************************************)
Error(name, message) == [name |-> name, message |-> message]

NoError == Error("none", "")

Returned(value) == [threw |-> FALSE, value |-> value, error |-> NoError]

Threw(error) == [threw |-> TRUE, value |-> <<>>, error |-> error]

(***************************************************************************)
(* The schema validators.  An ajv validator is a function object: a call   *)
(* returns whether the node matches and leaves the diagnostics of that     *)
(* call in validator.errors.                                               *)
(***************************************************************************)
RunValidator(node) ==
    [isValid |-> node.ajvErrors = NoErrors, errors |-> node.ajvErrors]

RECURSIVE Join(_, _)
\* Array.prototype.join
Join(strings, sep) ==
    IF strings = <<>> THEN ""
    ELSE IF Len(strings) = 1 THEN strings[1]
    ELSE strings[1] \o sep \o Join(Tail(strings), sep)

\* A format that keeps the first diagnostic only.
formatAjvErrorsFirstOnly(validatorErrors) ==
    IF validatorErrors = <<>> THEN ""
    ELSE "Field at \"" \o validatorErrors[1].instancePath \o "\" "
             \o validatorErrors[1].message

\* formatAjvErrors: one line per diagnostic in validator.errors
formatAjvErrors(validatorErrors) ==
    Join([i \in DOMAIN validatorErrors |->
              "Field at \"" \o validatorErrors[i].instancePath \o "\" "
                  \o validatorErrors[i].message],
         "\n")

RECURSIVE MetricsLoop(_, _)
\* metrics.forEach of _validateDbtMetrics from index i on: the first metric
\* the validator rejects throws.
MetricsLoop(metrics, i) ==
    IF i > Len(metrics) THEN Returned(metrics)
    ELSE LET v == RunValidator(metrics[i])
         IN  IF ~v.isValid
             THEN Threw(Error("ParseError",
                     "Could not parse dbt metric with id "
                         \o metrics[i].unique_id \o ": "
                         \o formatAjvErrors(v.errors)))
             ELSE MetricsLoop(metrics, i + 1)

\* A validation that keeps the metrics that pass instead of throwing.
validateDbtMetricsPartial(metrics) ==
    Returned(SelectSeq(metrics, LAMBDA metric : RunValidator(metric).isValid))

\* A validation that examines every metric and reports the last one rejected.
validateDbtMetricsReportsLast(metrics) ==
    LET rejected == { k \in DOMAIN metrics : ~RunValidator(metrics[k]).isValid }
        last == CHOOSE k \in rejected : \A n \in rejected : n <= k
    IN  IF rejected = {} THEN Returned(metrics)
        ELSE Threw(Error("ParseError",
                 "Could not parse dbt metric with id "
                     \o metrics[last].unique_id \o ": "
                     \o formatAjvErrors(metrics[last].ajvErrors)))

\* A validation that lets every metric through.
validateDbtMetricsAccepts(metrics) == Returned(metrics)

validateDbtMetrics(metrics) == MetricsLoop(metrics, 1)

\* normaliseModelDatabase: a null database becomes the adapter's database.
normaliseModelDatabase(model, adapterType) ==
    IF model.database = Null
    THEN [model EXCEPT !.database = ActiveDatabase(adapterType)]
    ELSE model

\* The ExploreError _validateDbtModelMetadata builds for a rejected model.
MetadataParseError(model, validatorErrors) ==
    [name |-> model.name,
     errors |-> << [type |-> "MetadataParseError",
                    message |-> formatAjvErrors(validatorErrors)] >>]

\* A reduce step that drops a rejected model instead of recording it.
ValidateStepDropsInvalid(acc, model, adapterType) ==
    LET v == RunValidator(model)
    IN  IF v.isValid
        THEN << Append(acc[1], normaliseModelDatabase(model, adapterType)), acc[2] >>
        ELSE acc

\* A reduce step that records a rejected model and keeps it as valid too.
ValidateStepKeepsInvalid(acc, model, adapterType) ==
    LET v == RunValidator(model)
    IN  IF v.isValid
        THEN << Append(acc[1], normaliseModelDatabase(model, adapterType)), acc[2] >>
        ELSE << Append(acc[1], normaliseModelDatabase(model, adapterType)),
                Append(acc[2], MetadataParseError(model, v.errors)) >>

\* A reduce step that puts the latest rejected model first.
ValidateStepPrepends(acc, model, adapterType) ==
    LET v == RunValidator(model)
    IN  IF v.isValid
        THEN << Append(acc[1], normaliseModelDatabase(model, adapterType)), acc[2] >>
        ELSE << acc[1], << MetadataParseError(model, v.errors) >> \o acc[2] >>

\* A reduce step that gives up on the models that follow a rejected one.
ValidateStepStopsAtInvalid(acc, model, adapterType) ==
    LET v == RunValidator(model)
    IN  IF v.isValid
        THEN IF acc[2] = <<>>
             THEN << Append(acc[1], normaliseModelDatabase(model, adapterType)), acc[2] >>
             ELSE acc
        ELSE << acc[1], Append(acc[2], MetadataParseError(model, v.errors)) >>

\* One step of the reduce of _validateDbtModelMetadata.
ValidateStep(acc, model, adapterType) ==
    LET v == RunValidator(model)
    IN  IF v.isValid
        THEN << Append(acc[1], normaliseModelDatabase(model, adapterType)), acc[2] >>
        ELSE << acc[1], Append(acc[2], MetadataParseError(model, v.errors)) >>

RECURSIVE ValidateReduce(_, _, _, _)
ValidateReduce(acc, models, i, adapterType) ==
    IF i > Len(models) THEN acc
    ELSE ValidateReduce(ValidateStep(acc, models[i], adapterType),
                        models, i + 1, adapterType)

\* _validateDbtModelMetadata: << validModels, invalidModels >>
validateDbtModelMetadata(adapterType, models) ==
    ValidateReduce(<< <<>>, <<>> >>, models, 1, adapterType)

\* The nodes of the manifest that compileAllExplores validates.
ModelNodes(nodes) == SelectSeq(nodes, LAMBDA node : node.resource_type = "model")

(***************************************************************************)
(* The translator: catalog request, type attachment, explore conversion.   *)
(***************************************************************************)
ModelRef(model) == TableRef(model.database, model.schema, model.table)

\* getSchemaStructureFromDbtModels: the tables of the models, each once.
getSchemaStructureFromDbtModels(models) ==
    { ModelRef(models[i]) : i \in DOMAIN models }

\* What the warehouse client's getCatalog returns for a request when the
\* live schema is warehouse.
CatalogFor(warehouse, request) == { e \in warehouse : e.ref \in request }

HasEntry(catalog, ref, column) ==
    \E e \in catalog : e.ref = ref /\ e.column = column

TypeIn(catalog, ref, column) ==
    (CHOOSE e \in catalog : e.ref = ref /\ e.column = column).type

\* A column after type attachment: resolved from the catalog, or (lazy) left
\* unresolved with its declared type as placeholder.
AttachColumn(model, column, catalog) ==
    IF HasEntry(catalog, ModelRef(model), column.name)
    THEN [name |-> column.name, declared |-> column.declared,
          type |-> TypeIn(catalog, ModelRef(model), column.name),
          resolved |-> TRUE]
    ELSE [name |-> column.name, declared |-> column.declared,
          type |-> column.declared, resolved |-> FALSE]

AttachModel(model, catalog) ==
    [model EXCEPT !.columns =
        [i \in DOMAIN model.columns |-> AttachColumn(model, model.columns[i], catalog)]]

\* attachTypesToModels(models, catalog, lazy): strict mode throws on a column
\* the catalog lacks; lazy mode leaves it unresolved.
attachTypesToModels(models, catalog, lazy) ==
    IF ~lazy /\ \E i \in DOMAIN models : \E j \in DOMAIN models[i].columns :
                  ~HasEntry(catalog, ModelRef(models[i]), models[i].columns[j].name)
    THEN Threw(Error("MissingCatalogEntryError", "Column has no type in the catalog"))
    ELSE Returned([i \in DOMAIN models |-> AttachModel(models[i], catalog)])

\* The builder needs the type of a column that was never resolved and that
\* declares none.
NeedsUnresolvedType(typedModels) ==
    \E i \in DOMAIN typedModels : \E j \in DOMAIN typedModels[i].columns :
        /\ ~typedModels[i].columns[j].resolved
        /\ typedModels[i].columns[j].declared = NoType

ModelNames(models) == { models[i].name : i \in DOMAIN models }

\* The Explore, or the ExploreError of a failed conversion, of one model.
ConvertModel(model, typedModels, loadSources, adapterType, metrics) ==
    IF model.joins # NoJoin /\ model.joins \notin ModelNames(typedModels)
    THEN [name |-> model.name,
          errors |-> << [type |-> "NoReferenceError",
                         message |-> "Model " \o model.name
                             \o " references unknown model " \o model.joins] >>]
    ELSE [name |-> model.name,
          baseTable |-> model.name,
          targetDatabase |-> adapterType,
          joinedTables |-> IF model.joins = NoJoin THEN <<>> ELSE << model.joins >>,
          dimensions |-> [j \in DOMAIN model.columns |->
                             [name |-> model.columns[j].name,
                              type |-> model.columns[j].type,
                              source |-> IF loadSources THEN model.table ELSE Undefined]],
          metrics |-> SelectSeq(metrics, LAMBDA m : m.model = model.name)]

\* convertExplores: one outcome per typed model, in the order of the models,
\* unless a type is missing from the catalog, which is thrown for the run.
convertExplores(typedModels, loadSources, adapterType, metrics) ==
    IF NeedsUnresolvedType(typedModels)
    THEN Threw(Error("MissingCatalogEntryError", "Column has no type in the catalog"))
    ELSE Returned([i \in DOMAIN typedModels |->
             ConvertModel(typedModels[i], typedModels, loadSources, adapterType, metrics)])

IsExploreError(entry) == "errors" \in DOMAIN entry

(***************************************************************************)
(* The decisions of compileAllExplores.                                    *)
(***************************************************************************)
\* An adapter check that lets every adapter type through.
AdapterNeverRejected(metadata) == FALSE

\* The adapter check: an unsupported adapter type throws.
AdapterRejected(metadata) == ~isSupportedDbtAdapter(metadata)

UnsupportedAdapterError(metadata) ==
    Error("ParseError",
          "Dbt project not supported. Lightdash does not support adapter "
              \o metadata.adapter_type)

\* The cached catalog, undefined until the first fetch.
NoCatalog == [defined |-> FALSE, entries |-> {}]

Fetched(catalog) == [defined |-> TRUE, entries |-> catalog]

\* A lazy attempt that ignores the cache.
LazyCatalogEmpty(cached) == {}

\* this.warehouseCatalog || {}
LazyCatalog(cached) == IF cached.defined THEN cached.entries ELSE {}

\* A lazy return that leaves out the failed explores.
LazyResultDropsFailed(lazyExplores, failedExplores) == lazyExplores

\* return [...lazyExplores, ...failedExplores]
LazyResult(lazyExplores, failedExplores) == lazyExplores \o failedExplores

\* A strict return that puts the failed explores first.
StrictResultFailedFirst(explores, failedExplores) == failedExplores \o explores

\* A strict return that reports the missing catalog entry as a failed explore.
StrictResultReportsMissing(explores, failedExplores) ==
    explores \o failedExplores
        \o << [name |-> Undefined,
               errors |-> << [type |-> "MissingCatalogEntryError",
                              message |-> "Column has no type in the catalog"] >>] >>

\* return [...explores, ...failedExplores]
StrictResult(explores, failedExplores) == explores \o failedExplores

\* A catch that refreshes the catalog on any error.
LazyCatchAll(e) == "getCatalog"

\* A catch that rethrows every error.
LazyCatchRethrows(e) == "done"

\* The catch of the lazy attempt: where the call goes on an error.
LazyCatch(e) ==
    IF e.name = "MissingCatalogEntryError" THEN "getCatalog" ELSE "done"

\* A strict attempt that refreshes again when an entry is still missing.
StrictCatchRetries(e) ==
    IF e.name = "MissingCatalogEntryError" THEN "getCatalog" ELSE "done"

\* A strict attempt that fetches the catalog again on any error.
StrictCatchRefreshesAgain(e) == "getCatalog"

\* An error of the strict attempt is thrown inside the catch block: nothing
\* catches it.
StrictCatch(e) == "done"

\* The error a failed warehouseClient.getCatalog rejects with.
CatalogFetchError == Error("WarehouseError", "Failed to fetch the catalog")

\* A refresh that fetches again when the fetch fails.
RefreshCatchRetries(e) == "getCatalog"

\* The await of getCatalog is inside the catch block: nothing catches its
\* rejection.
RefreshCatch(e) == "done"

\* A refresh that asks for the tables of every model of the manifest.
CatalogRequestAllModels(validModels, models) == models

\* The models whose tables the refresh asks the warehouse for: the argument
\* of getSchemaStructureFromDbtModels.
CatalogRequestModels(validModels, models) == validModels

\* No getCatalog call has been answered.
NoRequest == {}

\* A run that attaches types before it validates.
LazyStagesAttachFirst ==
    << "isSupportedDbtAdapter", "attachTypesToModels", "validateDbtModelMetadata",
       "validateDbtMetrics", "convertExplores" >>

\* The calls compileAllExplores makes, in the order of its statements, from
\* the manifest to the await of the lazy convertExplores.
LazyStages ==
    << "isSupportedDbtAdapter", "validateDbtModelMetadata", "validateDbtMetrics",
       "attachTypesToModels", "convertExplores" >>

\* A strict attempt that puts the earlier catalog back when it fails.
KeptCatalogRolledBack(stored, before) == before

\* this.warehouseCatalog when the strict attempt throws after the catalog
\* was stored: nothing assigns it again.
KeptCatalog(stored, before) == stored

\* A failed fetch that clears the cache.
UnassignedCatalogCleared(cached) == NoCatalog

\* this.warehouseCatalog after a getCatalog that rejects: the assignment it
\* is the right-hand side of is not made.
UnassignedCatalog(cached) == cached

\* A refresh that adds the fetched entries to the cached ones.
RefreshedCatalogMerged(cached, fetched) == Fetched(cached.entries \cup fetched)

\* The value the refresh stores in this.warehouseCatalog.
RefreshedCatalog(cached, fetched) == Fetched(fetched)

(***************************************************************************)
(* State.                                                                  *)
(***************************************************************************)
\* The callers of compileAllExplores on the one adapter.
Callers == {"c1", "c2"}

VARIABLES
    dbtNodes,          \* the dbt project: Object.values(manifest.nodes)
    dbtMetrics,        \* the dbt project: Object.values(manifest.metrics)
    dbtAdapterType,    \* the dbt project: manifest.metadata.adapter_type
    warehouse,         \* the live schema of the warehouse
    warehouseCatalog,  \* this.warehouseCatalog
    pc,                \* per caller: the await its call is suspended at
    loadSources,       \* per caller: the argument of its call
    manifest,          \* per caller: const { manifest }
    validModels,       \* per caller: const [validModels, failedExplores]
    failedExplores,
    metrics,           \* per caller: const metrics
    typedModels,       \* per caller: the models passed to convertExplores
    lazyCatalog,       \* per caller: the catalog its lazy attempt attached
    trace,             \* per caller: the calls its invocation has made so far
    outcome,           \* per caller: what its last invocation returned or threw
    catalogAtStart,    \* per caller: this.warehouseCatalog when it was called
    catalogRequest,    \* per caller: the tables its getCatalog call asked for
    prev,              \* the list the call before the current one returned, if
                       \* it returned one for the same argument and environment
    query              \* the latest call of runQuery

vars ==
    << dbtNodes, dbtMetrics, dbtAdapterType, warehouse, warehouseCatalog, pc,
       loadSources, manifest, validModels, failedExplores, metrics, typedModels,
       lazyCatalog, trace, outcome, catalogAtStart, catalogRequest, prev, query >>

envVars == << dbtNodes, dbtMetrics, dbtAdapterType, warehouse >>

localVars ==
    << loadSources, manifest, validModels, failedExplores, metrics, typedModels,
       lazyCatalog, catalogAtStart, catalogRequest >>

NoManifest ==
    [nodes |-> <<>>, metrics |-> <<>>, metadata |-> [adapter_type |-> Undefined]]

NoPrev == [valid |-> FALSE, value |-> <<>>, refreshed |-> FALSE]

\* runQuery has not been called.
NoQuery == [pc |-> "idle", sql |-> "", sent |-> <<>>, answer |-> Returned(<<>>),
            outcome |-> Returned(<<>>)]

InFlight(i) == pc[i] \notin {"idle", "done"}

Init ==
    /\ dbtNodes \in NodeLists
    /\ dbtMetrics \in MetricLists
    /\ dbtAdapterType \in AdapterTypes
    /\ warehouse \in WarehouseSchemas
    /\ warehouseCatalog = NoCatalog
    /\ pc = [i \in Callers |-> "idle"]
    /\ loadSources = [i \in Callers |-> FALSE]
    /\ manifest = [i \in Callers |-> NoManifest]
    /\ validModels = [i \in Callers |-> <<>>]
    /\ failedExplores = [i \in Callers |-> <<>>]
    /\ metrics = [i \in Callers |-> <<>>]
    /\ typedModels = [i \in Callers |-> <<>>]
    /\ lazyCatalog = [i \in Callers |-> {}]
    /\ trace = [i \in Callers |-> <<>>]
    /\ outcome = [i \in Callers |-> Returned(<<>>)]
    /\ catalogAtStart = [i \in Callers |-> NoCatalog]
    /\ catalogRequest = [i \in Callers |-> NoRequest]
    /\ prev = NoPrev
    /\ query = NoQuery

(***************************************************************************)
(* The environment: the dbt project is edited, the warehouse schema        *)
(* drifts.  A call reads the manifest once and the warehouse at most once, *)
(* so a change during a call is a change before or after it.  The record   *)
(* of the finished call (its locals, trace and outcome) is kept for as     *)
(* long as the environment stays as that call saw it.                      *)
(***************************************************************************)
EnvQuiet == \A i \in Callers : ~InFlight(i)

ForgetCalls ==
    /\ pc' = [i \in Callers |-> "idle"]
    /\ loadSources' = [i \in Callers |-> FALSE]
    /\ manifest' = [i \in Callers |-> NoManifest]
    /\ validModels' = [i \in Callers |-> <<>>]
    /\ failedExplores' = [i \in Callers |-> <<>>]
    /\ metrics' = [i \in Callers |-> <<>>]
    /\ typedModels' = [i \in Callers |-> <<>>]
    /\ lazyCatalog' = [i \in Callers |-> {}]
    /\ trace' = [i \in Callers |-> <<>>]
    /\ outcome' = [i \in Callers |-> Returned(<<>>)]
    /\ catalogAtStart' = [i \in Callers |-> NoCatalog]
    /\ catalogRequest' = [i \in Callers |-> NoRequest]
    /\ prev' = NoPrev

\* A node is added to the project.
AddNode ==
    /\ EnvQuiet
    /\ Len(dbtNodes) < MaxNodes
    /\ \E n \in NodePool :
          /\ \A k \in DOMAIN dbtNodes : dbtNodes[k] # n
          /\ dbtNodes' = Append(dbtNodes, n)
    /\ ForgetCalls
    /\ UNCHANGED << dbtMetrics, dbtAdapterType, warehouse, warehouseCatalog, query >>

\* A node is removed from the project.
RemoveNode ==
    /\ EnvQuiet
    /\ \E k \in DOMAIN dbtNodes :
          dbtNodes' = SubSeq(dbtNodes, 1, k - 1) \o SubSeq(dbtNodes, k + 1, Len(dbtNodes))
    /\ ForgetCalls
    /\ UNCHANGED << dbtMetrics, dbtAdapterType, warehouse, warehouseCatalog, query >>

ChangeMetrics ==
    /\ EnvQuiet
    /\ \E ms \in MetricLists : ms # dbtMetrics /\ dbtMetrics' = ms
    /\ ForgetCalls
    /\ UNCHANGED << dbtNodes, dbtAdapterType, warehouse, warehouseCatalog, query >>

ChangeAdapterType ==
    /\ EnvQuiet
    /\ \E a \in AdapterTypes : a # dbtAdapterType /\ dbtAdapterType' = a
    /\ ForgetCalls
    /\ UNCHANGED << dbtNodes, dbtMetrics, warehouse, warehouseCatalog, query >>

SchemaDrift ==
    /\ EnvQuiet
    /\ \E w \in WarehouseSchemas : w # warehouse /\ warehouse' = w
    /\ ForgetCalls
    /\ UNCHANGED << dbtNodes, dbtMetrics, dbtAdapterType, warehouseCatalog, query >>

(***************************************************************************)
(* compileAllExplores, one action per suspension point.                    *)
(***************************************************************************)
\* Where a call stands after a step: its place, what it returned or threw,
\* and the calls it has made.
Step(place, result, calls) == [pc |-> place, outcome |-> result, trace |-> calls]

Pending == Returned(<<>>)

\* An error e is thrown where the enclosing catch sends the call to dest: to
\* "done", where the call throws e, or to "getCatalog", where it calls the
\* warehouse.  The trace records the error after the calls made so far.
Caught(dest, e, calls) ==
    IF dest = "getCatalog"
    THEN Step("getCatalog", Pending, calls \o << e.name, "getCatalog" >>)
    ELSE Step("done", Threw(e), Append(calls, e.name))

Advance(i, step) ==
    /\ pc' = [pc EXCEPT ![i] = step.pc]
    /\ outcome' = [outcome EXCEPT ![i] = step.outcome]
    /\ trace' = [trace EXCEPT ![i] = step.trace]

\* compileAllExplores(ls) is called: it calls dbtClient.installDeps().
Start(i, ls) ==
    /\ ~InFlight(i)
    /\ prev' = IF pc[i] = "done" /\ ~outcome[i].threw /\ loadSources[i] = ls
               THEN [valid |-> TRUE, value |-> outcome[i].value,
                     refreshed |-> \E k \in DOMAIN trace[i] : trace[i][k] = "getCatalog"]
               ELSE NoPrev
    /\ loadSources' = [loadSources EXCEPT ![i] = ls]
    /\ manifest' = [manifest EXCEPT ![i] = NoManifest]
    /\ validModels' = [validModels EXCEPT ![i] = <<>>]
    /\ failedExplores' = [failedExplores EXCEPT ![i] = <<>>]
    /\ metrics' = [metrics EXCEPT ![i] = <<>>]
    /\ typedModels' = [typedModels EXCEPT ![i] = <<>>]
    /\ lazyCatalog' = [lazyCatalog EXCEPT ![i] = {}]
    /\ catalogAtStart' = [catalogAtStart EXCEPT ![i] = warehouseCatalog]
    /\ catalogRequest' = [catalogRequest EXCEPT ![i] = NoRequest]
    /\ Advance(i, Step("installDeps", Pending, << "installDeps" >>))
    /\ UNCHANGED << envVars, query, warehouseCatalog >>

\* installDeps resolves: the call goes on to dbtClient.getDbtManifest().
InstallDepsDone(i) ==
    /\ pc[i] = "installDeps"
    /\ Advance(i, Step("getDbtManifest", Pending, Append(trace[i], "getDbtManifest")))
    /\ UNCHANGED << envVars, query, warehouseCatalog, localVars, prev >>

\* installDeps rejects: the error leaves the call.
InstallDepsFails(i) ==
    /\ pc[i] = "installDeps"
    /\ Advance(i, Caught("done", Error("DbtError", "Failed to install dependencies"),
                       trace[i]))
    /\ UNCHANGED << envVars, query, warehouseCatalog, localVars, prev >>

\* getDbtManifest rejects.
GetManifestFails(i) ==
    /\ pc[i] = "getDbtManifest"
    /\ Advance(i, Caught("done", Error("DbtError", "Failed to get the manifest"),
                       trace[i]))
    /\ UNCHANGED << envVars, query, warehouseCatalog, localVars, prev >>

\* getDbtManifest resolves with the project's manifest.  The code then runs
\* without suspending up to the call of convertExplores: the adapter check,
\* the two validations and the lazy type attachment.
GetManifestDone(i) ==
    /\ pc[i] = "getDbtManifest"
    /\ LET m == [nodes |-> dbtNodes, metrics |-> dbtMetrics,
                 metadata |-> [adapter_type |-> dbtAdapterType]]
           adapterType == m.metadata.adapter_type
           validated == validateDbtModelMetadata(adapterType, ModelNodes(m.nodes))
           checked == validateDbtMetrics(m.metrics)
           catalog == LazyCatalog(warehouseCatalog)
           attached == attachTypesToModels(validated[1], catalog, TRUE)
           t1 == trace[i] \o SubSeq(LazyStages, 1, 1)
           t3 == trace[i] \o SubSeq(LazyStages, 1, 3)
           t4 == trace[i] \o SubSeq(LazyStages, 1, 4)
           t5 == trace[i] \o LazyStages
       IN  /\ manifest' = [manifest EXCEPT ![i] = m]
           /\ IF AdapterRejected(m.metadata)
              THEN /\ Advance(i, Caught("done", UnsupportedAdapterError(m.metadata), t1))
                   /\ UNCHANGED << validModels, failedExplores, metrics, typedModels,
                                   lazyCatalog >>
              ELSE /\ validModels' = [validModels EXCEPT ![i] = validated[1]]
                   /\ failedExplores' = [failedExplores EXCEPT ![i] = validated[2]]
                   /\ IF checked.threw
                      THEN /\ Advance(i, Caught("done", checked.error, t3))
                           /\ UNCHANGED << metrics, typedModels, lazyCatalog >>
                      ELSE /\ metrics' = [metrics EXCEPT ![i] = checked.value]
                           /\ lazyCatalog' = [lazyCatalog EXCEPT ![i] = catalog]
                           /\ IF attached.threw
                              THEN /\ Advance(i, Caught(LazyCatch(attached.error),
                                                        attached.error, t4))
                                   /\ UNCHANGED typedModels
                              ELSE /\ Advance(i, Step("convertLazy", Pending, t5))
                                   /\ typedModels' =
                                          [typedModels EXCEPT ![i] = attached.value]
    /\ UNCHANGED << envVars, query, warehouseCatalog, loadSources, catalogAtStart,
                    catalogRequest, prev >>

\* convertExplores of the lazy attempt settles as the translator computes:
\* its list is returned with the failed explores, its error goes to the catch.
ConvertLazyDone(i) ==
    /\ pc[i] = "convertLazy"
    /\ LET converted == convertExplores(typedModels[i], loadSources[i],
                                        manifest[i].metadata.adapter_type, metrics[i])
       IN  IF converted.threw
           THEN Advance(i, Caught(LazyCatch(converted.error), converted.error, trace[i]))
           ELSE Advance(i, Step("done",
                    Returned(LazyResult(converted.value, failedExplores[i])), trace[i]))
    /\ UNCHANGED << envVars, query, warehouseCatalog, localVars, prev >>

\* convertExplores of the lazy attempt rejects with some other error.
ConvertLazyFails(i) ==
    /\ pc[i] = "convertLazy"
    /\ LET e == Error("CompileError", "Could not compile explore")
       IN  Advance(i, Caught(LazyCatch(e), e, trace[i]))
    /\ UNCHANGED << envVars, query, warehouseCatalog, localVars, prev >>

\* getCatalog rejects: the error leaves the call, the cache is as it was.
GetCatalogFails(i) ==
    /\ pc[i] = "getCatalog"
    /\ catalogRequest' = [catalogRequest EXCEPT ![i] =
           getSchemaStructureFromDbtModels(
               CatalogRequestModels(validModels[i], ModelNodes(manifest[i].nodes)))]
    /\ warehouseCatalog' = UnassignedCatalog(warehouseCatalog)
    /\ Advance(i, Caught(RefreshCatch(CatalogFetchError), CatalogFetchError, trace[i]))
    /\ UNCHANGED << envVars, query, loadSources, manifest, validModels, failedExplores,
                    metrics, typedModels, lazyCatalog, catalogAtStart, prev >>

\* getCatalog resolves: the catalog is stored and, without suspending, the
\* types are attached strictly and convertExplores is called again.
GetCatalogDone(i) ==
    /\ pc[i] = "getCatalog"
    /\ LET request == getSchemaStructureFromDbtModels(
                          CatalogRequestModels(validModels[i], ModelNodes(manifest[i].nodes)))
           fetched == CatalogFor(warehouse, request)
           stored == RefreshedCatalog(warehouseCatalog, fetched)
           attached == attachTypesToModels(validModels[i], stored.entries, FALSE)
           t1 == Append(trace[i], "attachTypesToModels")
           t2 == Append(t1, "convertExplores")
       IN  /\ catalogRequest' = [catalogRequest EXCEPT ![i] = request]
           /\ IF attached.threw
              THEN /\ warehouseCatalog' = KeptCatalog(stored, warehouseCatalog)
                   /\ Advance(i, Caught(StrictCatch(attached.error), attached.error, t1))
                   /\ UNCHANGED typedModels
              ELSE /\ warehouseCatalog' = stored
                   /\ Advance(i, Step("convertStrict", Pending, t2))
                   /\ typedModels' = [typedModels EXCEPT ![i] = attached.value]
    /\ UNCHANGED << envVars, query, loadSources, manifest, validModels, failedExplores, metrics,
                    lazyCatalog, catalogAtStart, prev >>

\* convertExplores of the strict attempt settles as the translator computes.
ConvertStrictDone(i) ==
    /\ pc[i] = "convertStrict"
    /\ LET converted == convertExplores(typedModels[i], loadSources[i],
                                        manifest[i].metadata.adapter_type, metrics[i])
       IN  IF converted.threw
           THEN /\ warehouseCatalog' = KeptCatalog(warehouseCatalog, catalogAtStart[i])
                /\ Advance(i, Caught(StrictCatch(converted.error), converted.error,
                                     trace[i]))
           ELSE /\ warehouseCatalog' = warehouseCatalog
                /\ Advance(i, Step("done",
                       Returned(StrictResult(converted.value, failedExplores[i])),
                       trace[i]))
    /\ UNCHANGED << envVars, query, localVars, prev >>

\* convertExplores of the strict attempt rejects with some other error.
ConvertStrictFails(i) ==
    /\ pc[i] = "convertStrict"
    /\ LET e == Error("CompileError", "Could not compile explore")
       IN  Advance(i, Caught(StrictCatch(e), e, trace[i]))
    /\ warehouseCatalog' = KeptCatalog(warehouseCatalog, catalogAtStart[i])
    /\ UNCHANGED << envVars, query, localVars, prev >>

\* A call that has started goes on from the await it is suspended at.
Proceed(i) ==
    \/ InstallDepsDone(i)
    \/ InstallDepsFails(i)
    \/ GetManifestDone(i)
    \/ GetManifestFails(i)
    \/ ConvertLazyDone(i)
    \/ ConvertLazyFails(i)
    \/ GetCatalogDone(i)
    \/ GetCatalogFails(i)
    \/ ConvertStrictDone(i)
    \/ ConvertStrictFails(i)

Call(i) ==
    \/ \E ls \in BOOLEAN : Start(i, ls)
    \/ Proceed(i)

Environment ==
    \/ AddNode
    \/ RemoveNode
    \/ ChangeMetrics
    \/ ChangeAdapterType
    \/ SchemaDrift

\* The adapter used by one caller at a time: its calls do not overlap.
MainCaller == "c1"

Next ==
    \/ Call(MainCaller)
    \/ Environment

Spec == Init /\ [][Next]_vars

\* Every awaited call settles: a call that is suspended goes on.
EveryAwaitSettles == WF_vars(Proceed(MainCaller))

\* One caller calling again and again on a project and a warehouse that
\* stay as they are.
NextLive == Call(MainCaller)

SpecLive == Init /\ [][NextLive]_vars /\ EveryAwaitSettles

(***************************************************************************)
(* runQuery, which callers may use at any time, also while a compilation   *)
(* is suspended at an await.                                               *)
(***************************************************************************)
\* The statements callers run.
Sqls == {"SELECT 1", "SELECT status FROM orders"}

\* What warehouseClient.runQuery resolves with, and what it rejects with.
Rows(sql) == << [statement |-> sql, row |-> 1] >>

QueryError == Error("WarehouseError", "Failed to run the query")

\* The statement runQuery passes to warehouseClient.runQuery.
ForwardedSql(sql) == sql

\* A runQuery that turns a rejection into an empty result.
RunQueryResultSwallows(answer) == IF answer.threw THEN Returned(<<>>) ELSE answer

\* runQuery returns the promise of warehouseClient.runQuery: it settles as
\* that one does.
RunQueryResult(answer) == answer

\* runQuery(sql) is called: it calls warehouseClient.runQuery.
RunQuery(sql) ==
    /\ query.pc # "running"
    /\ query' = [pc |-> "running", sql |-> sql, sent |-> << ForwardedSql(sql) >>,
                 answer |-> Pending, outcome |-> Pending]
    /\ UNCHANGED << envVars, warehouseCatalog, pc, localVars, trace, outcome, prev >>

\* warehouseClient.runQuery resolves with the rows of the statement it got.
RunQueryDone ==
    /\ query.pc = "running"
    /\ LET answer == Returned(Rows(query.sent[1]))
       IN  query' = [query EXCEPT !.pc = "done", !.answer = answer,
                                  !.outcome = RunQueryResult(answer)]
    /\ UNCHANGED << envVars, warehouseCatalog, pc, localVars, trace, outcome, prev >>

\* warehouseClient.runQuery rejects.
RunQueryFails ==
    /\ query.pc = "running"
    /\ LET answer == Threw(QueryError)
       IN  query' = [query EXCEPT !.pc = "done", !.answer = answer,
                                  !.outcome = RunQueryResult(answer)]
    /\ UNCHANGED << envVars, warehouseCatalog, pc, localVars, trace, outcome, prev >>

Query ==
    \/ \E sql \in Sqls : RunQuery(sql)
    \/ RunQueryDone
    \/ RunQueryFails

\* A project with a supported adapter and no metrics, compiled and queried.
InitQuery ==
    /\ Init
    /\ dbtMetrics = <<>>
    /\ dbtAdapterType = "bigquery"

NextQuery ==
    \/ Call(MainCaller)
    \/ Query

SpecQuery == InitQuery /\ [][NextQuery]_vars

(***************************************************************************)
(* Overlapping invocations: every caller may call at any time, and a call  *)
(* runs on while another is suspended at an await.  The project is edited  *)
(* while calls are in flight, so that two calls may read different         *)
(* manifests and ask the warehouse for different tables.                   *)
(***************************************************************************)
\* The projects the overlapping calls compile.
OverlapNodeLists == { << NodeOrders >>, << NodeNameless, NodeUsers >> }

\* The project is edited, whatever the calls are doing.
EditProject ==
    /\ \E nodes \in OverlapNodeLists : nodes # dbtNodes /\ dbtNodes' = nodes
    /\ UNCHANGED << dbtMetrics, dbtAdapterType, warehouse, warehouseCatalog, pc,
                    localVars, trace, outcome, prev, query >>

InitOverlap ==
    /\ Init
    /\ dbtNodes \in OverlapNodeLists
    /\ dbtMetrics = <<>>
    /\ dbtAdapterType = "bigquery"
    /\ warehouse = WarehouseFull

NextOverlap ==
    \/ \E i \in Callers : Start(i, FALSE)
    \/ \E i \in Callers : Proceed(i)
    \/ EditProject

SpecOverlap == InitOverlap /\ [][NextOverlap]_vars

(***************************************************************************)
(* Properties.                                                             *)
(***************************************************************************)
Count(calls, event) == Cardinality({ k \in DOMAIN calls : calls[k] = event })

\* The calls a trace records; its other entries are the errors thrown.
CallNames ==
    { "installDeps", "getDbtManifest", "isSupportedDbtAdapter",
      "validateDbtModelMetadata", "validateDbtMetrics", "attachTypesToModels",
      "convertExplores", "getCatalog" }

Missing == "MissingCatalogEntryError"

\* The number of type attachments made up to place k of a trace: 1 in the
\* lazy attempt, 2 in the strict attempt.
Attempt(calls, k) == Count(SubSeq(calls, 1, k), "attachTypesToModels")

Called(i) == pc[i] # "idle"

Done(i) == pc[i] = "done"

\* C1: one invocation calls getCatalog at most once. The first
\* MissingCatalogEntryError (the lazy attempt's) is followed by exactly one
\* getCatalog call; a second one (the strict attempt's) ends the invocation,
\* which throws it: no second getCatalog call, no third attempt.
C1_AtMostOneRefresh ==
    \A i \in Callers :
        LET t == trace[i]
            missing == { k \in DOMAIN t : t[k] = Missing }
        IN  /\ Count(t, "getCatalog") <= 1
            /\ Count(t, "attachTypesToModels") <= 2
            /\ Count(t, "convertExplores") <= 2
            /\ \A k \in missing :
                  IF Attempt(t, k) = 1
                  THEN /\ k < Len(t)
                       /\ t[k + 1] = "getCatalog"
                       /\ Count(t, "getCatalog") = 1
                  ELSE /\ Attempt(t, k) = 2
                       /\ k = Len(t)
                       /\ Done(i)
                       /\ outcome[i] = Threw(outcome[i].error)
                       /\ outcome[i].error.name = Missing

\* An invocation whose strict attempt threw MissingCatalogEntryError again.
C1_Witness ==
    \E i \in Callers :
        /\ Done(i)
        /\ Count(trace[i], Missing) = 2
        /\ Count(trace[i], "getCatalog") = 1
        /\ outcome[i].threw

\* C2: getCatalog is called only right after the lazy attempt threw
\* MissingCatalogEntryError, and the cache changes only in an invocation that
\* called it; any other error of the lazy attempt is thrown by the
\* invocation, with no getCatalog call and no strict attempt.
C2_RefreshOnlyAfterLazyMiss ==
    \A i \in Callers :
        LET t == trace[i]
        IN  /\ \A k \in DOMAIN t :
                  t[k] = "getCatalog" =>
                      /\ k > 1
                      /\ t[k - 1] = Missing
                      /\ Attempt(t, k) = 1
            /\ (Called(i) /\ warehouseCatalog # catalogAtStart[i])
                   => Count(t, "getCatalog") = 1
            /\ \A k \in DOMAIN t :
                  ( /\ t[k] \notin CallNames \cup {Missing}
                    /\ Attempt(t, k) = 1
                    /\ Count(SubSeq(t, 1, k), "getCatalog") = 0 ) =>
                      /\ k = Len(t)
                      /\ Done(i)
                      /\ outcome[i] = Threw(outcome[i].error)
                      /\ outcome[i].error.name = t[k]
                      /\ Count(t, "getCatalog") = 0
                      /\ Count(t, "attachTypesToModels") = 1
                      /\ warehouseCatalog = catalogAtStart[i]

\* An invocation whose lazy conversion threw an error of another kind.
C2_Witness ==
    \E i \in Callers :
        /\ Done(i)
        /\ Count(trace[i], "convertExplores") = 1
        /\ trace[i][Len(trace[i])] = "CompileError"
        /\ outcome[i].error.name = "CompileError"

Supported(i) == manifest[i] # NoManifest /\ isSupportedDbtAdapter(manifest[i].metadata)

InvalidMetrics(i) ==
    { k \in DOMAIN manifest[i].metrics : manifest[i].metrics[k].ajvErrors # NoErrors }

\* C3: when a metric of the manifest fails the metric schema, the invocation
\* throws a ParseError that names a failing metric's unique_id and returns
\* nothing, whether or not models failed validation.
C3_InvalidMetricIsFatal ==
    \A i \in Callers :
        Supported(i) /\ InvalidMetrics(i) # {} =>
            /\ Done(i)
            /\ outcome[i] = Threw(outcome[i].error)
            /\ outcome[i].error.name = "ParseError"
            /\ \E k \in InvalidMetrics(i) :
                  outcome[i].error.message =
                      "Could not parse dbt metric with id "
                          \o manifest[i].metrics[k].unique_id \o ": "
                          \o formatAjvErrors(manifest[i].metrics[k].ajvErrors)
            /\ Count(trace[i], "attachTypesToModels") = 0
            /\ Count(trace[i], "convertExplores") = 0

\* An invalid metric among models of which one passed and one failed.
C3_Witness ==
    \E i \in Callers :
        /\ Done(i)
        /\ InvalidMetrics(i) # {}
        /\ validModels[i] # <<>>
        /\ failedExplores[i] # <<>>
        /\ outcome[i].threw

ValidOnes(models) == SelectSeq(models, LAMBDA model : model.ajvErrors = NoErrors)

InvalidOnes(models) == SelectSeq(models, LAMBDA model : model.ajvErrors # NoErrors)

UniqueIds(models) == [k \in DOMAIN models |-> models[k].unique_id]

\* C4: _validateDbtModelMetadata splits its input in two: the lengths of the
\* two lists add up to the input's, the valid list holds exactly the models
\* that match the schema, the other one entry per model that does not, and
\* the function returns (the invocation goes on to validate the metrics).
C4_ValidationPartitions ==
    \A i \in Callers :
        Supported(i) =>
            LET models == ModelNodes(manifest[i].nodes)
            IN  /\ Len(validModels[i]) + Len(failedExplores[i]) = Len(models)
                /\ UniqueIds(validModels[i]) = UniqueIds(ValidOnes(models))
                /\ Len(failedExplores[i]) = Len(InvalidOnes(models))
                /\ Count(trace[i], "validateDbtMetrics") = 1

\* A validation that filled both lists.
C4_Witness ==
    \E i \in Callers :
        /\ Supported(i)
        /\ validModels[i] # <<>>
        /\ failedExplores[i] # <<>>

\* C5: when the manifest declares an unsupported adapter type, the invocation
\* throws a ParseError naming that type before any validation, type
\* attachment, conversion or getCatalog call.
C5_UnsupportedAdapterIsFatal ==
    \A i \in Callers :
        manifest[i] # NoManifest /\ ~isSupportedDbtAdapter(manifest[i].metadata) =>
            /\ Done(i)
            /\ outcome[i] = Threw(outcome[i].error)
            /\ outcome[i].error.name = "ParseError"
            /\ outcome[i].error.message =
                   "Dbt project not supported. Lightdash does not support adapter "
                       \o manifest[i].metadata.adapter_type
            /\ \A call \in { "validateDbtModelMetadata", "validateDbtMetrics",
                             "attachTypesToModels", "convertExplores", "getCatalog" } :
                  Count(trace[i], call) = 0
            /\ validModels[i] = <<>> /\ failedExplores[i] = <<>> /\ metrics[i] = <<>>
            /\ warehouseCatalog = catalogAtStart[i]

\* An unsupported adapter type in a manifest with models and an invalid
\* metric.
C5_Witness ==
    \E i \in Callers :
        /\ Done(i)
        /\ manifest[i] # NoManifest
        /\ ~isSupportedDbtAdapter(manifest[i].metadata)
        /\ ModelNodes(manifest[i].nodes) # <<>>
        /\ InvalidMetrics(i) # {}

Succeeded(i) == Done(i) /\ ~outcome[i].threw

\* An entry built by _validateDbtModelMetadata for a rejected model.
IsValidationError(entry) ==
    IsExploreError(entry) /\ entry.errors[1].type = "MetadataParseError"

EntriesNamed(result, name) == { a \in DOMAIN result : result[a].name = name }

\* C6: in the list a successful invocation returns no name is both an
\* Explore's and an ExploreError's, and every node of kind model has exactly
\* one entry: a validation ExploreError if and only if it fails the schema.
\* A model that fails the schema is never passed to type attachment or
\* conversion.
C6_OneOutcomePerModel ==
    \A i \in Callers :
        /\ \A k \in DOMAIN validModels[i] : validModels[i][k].ajvErrors = NoErrors
        /\ \A k \in DOMAIN typedModels[i] : typedModels[i][k].ajvErrors = NoErrors
        /\ Succeeded(i) =>
              LET result == outcome[i].value
                  models == ModelNodes(manifest[i].nodes)
              IN  /\ \A a, b \in DOMAIN result :
                        IsExploreError(result[a]) /\ ~IsExploreError(result[b])
                            => result[a].name # result[b].name
                  /\ Len(result) = Len(models)
                  /\ \A k \in DOMAIN models :
                        /\ Cardinality(EntriesNamed(result, models[k].name)) = 1
                        /\ \A a \in EntriesNamed(result, models[k].name) :
                              IsValidationError(result[a])
                                  <=> models[k].ajvErrors # NoErrors

\* A returned list with an Explore and a failed validation.
C6_Witness ==
    \E i \in Callers :
        /\ Succeeded(i)
        /\ \E a \in DOMAIN outcome[i].value : ~IsExploreError(outcome[i].value[a])
        /\ \E a \in DOMAIN outcome[i].value : IsValidationError(outcome[i].value[a])

\* C7: every entry of the returned list carries the name of exactly one node
\* of kind model, no name twice, no model left out, no entry for a node of
\* another kind; also for models that failed validation.
C7_EveryEntryNamesOneModel ==
    \A i \in Callers :
        Succeeded(i) =>
            LET result == outcome[i].value
                models == ModelNodes(manifest[i].nodes)
            IN  /\ \A a \in DOMAIN result :
                      /\ result[a].name # Undefined
                      /\ Cardinality({ k \in DOMAIN models :
                                          models[k].name = result[a].name }) = 1
                /\ \A a, b \in DOMAIN result : a # b => result[a].name # result[b].name
                /\ \A k \in DOMAIN models : EntriesNamed(result, models[k].name) # {}
                /\ \A k \in DOMAIN manifest[i].nodes :
                      manifest[i].nodes[k].resource_type # "model"
                          => EntriesNamed(result, manifest[i].nodes[k].name) = {}

\* The lazy attempt of a finished invocation succeeded: it converted once and
\* nothing was thrown.
LazySucceeded(i) ==
    /\ Done(i)
    /\ Count(trace[i], "convertExplores") = 1
    /\ \A k \in DOMAIN trace[i] : trace[i][k] \in CallNames

\* What the lazy attempt computes from the cache the invocation found.
LazyExploresOf(i) ==
    convertExplores(
        attachTypesToModels(validModels[i],
            IF catalogAtStart[i].defined THEN catalogAtStart[i].entries ELSE {},
            TRUE).value,
        loadSources[i], manifest[i].metadata.adapter_type, metrics[i]).value

\* C8: when the lazy attempt succeeds the invocation returns the lazy
\* explores followed by the validation ExploreErrors, without a getCatalog
\* call or a second attempt, and the cache is what it was.
C8_LazySuccessReturns ==
    \A i \in Callers :
        LazySucceeded(i) =>
            /\ outcome[i] = Returned(LazyExploresOf(i) \o failedExplores[i])
            /\ Count(trace[i], "getCatalog") = 0
            /\ Count(trace[i], "attachTypesToModels") = 1
            /\ warehouseCatalog = catalogAtStart[i]

\* A lazy success on a cached catalog with explores and failed explores.
C8_Witness ==
    \E i \in Callers :
        /\ LazySucceeded(i)
        /\ catalogAtStart[i].defined
        /\ LazyExploresOf(i) # <<>>
        /\ failedExplores[i] # <<>>

CacheKept == warehouseCatalog.defined => warehouseCatalog'.defined

\* The cache changes only by a getCatalog call resolving, and to its result.
CacheReplacedByFetch ==
    warehouseCatalog' # warehouseCatalog =>
        \E i \in Callers :
            /\ pc[i] = "getCatalog"
            /\ warehouseCatalog' =
                   Fetched(CatalogFor(warehouse,
                                      getSchemaStructureFromDbtModels(validModels[i])))

EntriesKept == \A e \in warehouseCatalog.entries : e \in warehouseCatalog'.entries

\* The lazy attempt attached the catalog the invocation found cached.
LazyUsesCache ==
    \A i \in Callers :
        Count(trace[i], "attachTypesToModels") >= 1 /\ catalogAtStart[i].defined
            => lazyCatalog[i] = catalogAtStart[i].entries

\* C10, as amended: once a catalog has been fetched the cache is never
\* undefined again; it changes only by being replaced as a whole by the
\* result of a getCatalog call; every later lazy attempt uses the cache.
C10_CacheReplacedNeverCleared ==
    /\ [][CacheKept /\ CacheReplacedByFetch]_vars
    /\ []LazyUsesCache

\* C10, as claimed: the cache is never cleared, an entry once present stays
\* present, and every later lazy attempt uses the cache.
C10_CacheMonotonic ==
    /\ [][CacheKept /\ EntriesKept]_vars
    /\ []LazyUsesCache

\* A refresh has replaced a fetched catalog by one that lacks an entry of it.
C10_Witness ==
    \E i \in Callers :
        /\ catalogAtStart[i].defined
        /\ warehouseCatalog.defined
        /\ \E e \in catalogAtStart[i].entries : e \notin warehouseCatalog.entries

\* The tables of the nodes of a manifest that are models and pass the schema.
ValidModelRefs(nodes, adapterType) ==
    { ModelRef(normaliseModelDatabase(nodes[k], adapterType)) :
        k \in { n \in DOMAIN nodes : /\ nodes[n].resource_type = "model"
                                     /\ nodes[n].ajvErrors = NoErrors } }

\* C11: every table a getCatalog call asks for is the table of a model of
\* the manifest that passed the schema in that invocation, and each of
\* those tables is asked for; a table that only an invalid model or a node
\* of another kind refers to is never asked for.
C11_RequestFromValidModelsOnly ==
    \A i \in Callers :
        Count(trace[i], "getCatalog") >= 1 /\ pc[i] # "getCatalog" =>
            catalogRequest[i] =
                ValidModelRefs(manifest[i].nodes, manifest[i].metadata.adapter_type)

\* A refresh in an invocation whose manifest has an invalid model or a node
\* of another kind with a table of its own.
C11_Witness ==
    \E i \in Callers :
        /\ catalogRequest[i] # NoRequest
        /\ \E k \in DOMAIN manifest[i].nodes :
              /\ manifest[i].nodes[k].ajvErrors # NoErrors
                    \/ manifest[i].nodes[k].resource_type # "model"
              /\ ModelRef(manifest[i].nodes[k]) \notin catalogRequest[i]

\* The models of a manifest that pass the schema and those that fail it, in
\* the order of the manifest.
PassingModels(nodes) ==
    SelectSeq(ModelNodes(nodes), LAMBDA node : node.ajvErrors = NoErrors)

FailingModels(nodes) ==
    SelectSeq(ModelNodes(nodes), LAMBDA node : node.ajvErrors # NoErrors)

\* C12: a returned list holds first one conversion result per valid model,
\* in the order of the valid models in the manifest, then one validation
\* ExploreError per invalid model, in the order of the invalid models; on
\* the lazy return and on the strict return alike.
C12_ResultOrder ==
    \A i \in Callers :
        Succeeded(i) =>
            LET result == outcome[i].value
                passing == PassingModels(manifest[i].nodes)
                failing == FailingModels(manifest[i].nodes)
            IN  /\ Len(result) = Len(passing) + Len(failing)
                /\ \A k \in DOMAIN passing :
                      /\ result[k].name = passing[k].name
                      /\ ~IsValidationError(result[k])
                /\ \A k \in DOMAIN failing :
                      /\ result[Len(passing) + k].name = failing[k].name
                      /\ IsValidationError(result[Len(passing) + k])

\* A strict return for a manifest whose invalid model comes before its valid
\* model.
C12_Witness ==
    \E i \in Callers :
        /\ Succeeded(i)
        /\ Count(trace[i], "getCatalog") = 1
        /\ Len(manifest[i].nodes) = 2
        /\ manifest[i].nodes[1].ajvErrors # NoErrors
        /\ manifest[i].nodes[2].ajvErrors = NoErrors
        /\ manifest[i].nodes[2].resource_type = "model"

NamesOf(models) == [k \in DOMAIN models |-> models[k].name]

\* C13: model validation never ends an invocation: it is always followed by
\* metric validation.  An invocation in which nothing is thrown returns; a
\* returned list has one validation ExploreError for each invalid model, and
\* every valid model has been attached and converted, whatever invalid
\* models the manifest holds.
C13_InvalidModelNeverAborts ==
    \A i \in Callers :
        LET t == trace[i]
            passing == PassingModels(manifest[i].nodes)
            failing == FailingModels(manifest[i].nodes)
        IN  /\ \A k \in DOMAIN t :
                  t[k] = "validateDbtModelMetadata"
                      => k < Len(t) /\ t[k + 1] = "validateDbtMetrics"
            /\ (Done(i) /\ \A k \in DOMAIN t : t[k] \in CallNames) => Succeeded(i)
            /\ Succeeded(i) =>
                  LET result == outcome[i].value
                      validation == SelectSeq(result, IsValidationError)
                      converted == SelectSeq(result, LAMBDA e : ~IsValidationError(e))
                  IN  /\ NamesOf(validation) = NamesOf(failing)
                      /\ NamesOf(converted) = NamesOf(passing)
                      /\ NamesOf(typedModels[i]) = NamesOf(passing)

\* One invalid model, which lacks its name, and one valid model give one
\* ExploreError and one Explore.
C13_Witness ==
    \E i \in Callers :
        /\ Succeeded(i)
        /\ Len(outcome[i].value) = 2
        /\ ~IsExploreError(outcome[i].value[1])
        /\ IsValidationError(outcome[i].value[2])
        /\ outcome[i].value[2].name = Undefined

\* C14: when getCatalog fails the invocation throws that very error, right
\* after its one getCatalog call: no second fetch, no strict type attachment
\* or conversion, no list returned, and the cache is as the invocation
\* found it.
C14_FetchFailureIsFatal ==
    \A i \in Callers :
        LET t == trace[i]
        IN  \A k \in DOMAIN t :
                t[k] = CatalogFetchError.name =>
                    /\ k = Len(t)
                    /\ t[k - 1] = "getCatalog"
                    /\ Done(i)
                    /\ outcome[i] = Threw(CatalogFetchError)
                    /\ Count(t, "getCatalog") = 1
                    /\ Count(t, "attachTypesToModels") = 1
                    /\ Count(t, "convertExplores") <= 1
                    /\ warehouseCatalog = catalogAtStart[i]

\* A failed fetch in an invocation that found a catalog cached.
C14_Witness ==
    \E i \in Callers :
        /\ Done(i)
        /\ outcome[i] = Threw(CatalogFetchError)
        /\ catalogAtStart[i].defined

\* The invocation returned from its strict attempt.
StrictSucceeded(i) == Succeeded(i) /\ Count(trace[i], "getCatalog") = 1

\* What the strict attempt computes from the catalog the warehouse returned.
StrictExploresOf(i) ==
    convertExplores(
        attachTypesToModels(validModels[i], CatalogFor(warehouse, catalogRequest[i]),
                            FALSE).value,
        loadSources[i], manifest[i].metadata.adapter_type, metrics[i]).value

ErrorTypes(entry) ==
    IF IsExploreError(entry)
    THEN { entry.errors[k].type : k \in DOMAIN entry.errors }
    ELSE {}

\* C15: after a MissingCatalogEntryError of the lazy attempt the returned
\* list is the strict attempt's conversion of all valid models on the
\* fetched catalog, followed by the validation ExploreErrors computed before
\* the lazy attempt: no entry reports the missing catalog entry, no type of
\* the lazy attempt is in it, and neither validation ran a second time.
C15_LazyMissIsWholeRun ==
    \A i \in Callers :
        StrictSucceeded(i) =>
            /\ outcome[i] = Returned(StrictExploresOf(i) \o failedExplores[i])
            /\ Len(StrictExploresOf(i)) = Len(validModels[i])
            /\ \A k \in DOMAIN outcome[i].value :
                  Missing \notin ErrorTypes(outcome[i].value[k])
            /\ Count(trace[i], "validateDbtModelMetadata") = 1
            /\ Count(trace[i], "validateDbtMetrics") = 1
            /\ Count(trace[i], Missing) = 1

\* A strict return whose list differs from the one the lazy attempt would
\* have made of the cached catalog, with a validation ExploreError.
C15_Witness ==
    \E i \in Callers :
        /\ StrictSucceeded(i)
        /\ catalogAtStart[i].defined
        /\ failedExplores[i] # <<>>
        /\ \E k \in DOMAIN validModels[i] :
              AttachModel(validModels[i][k], catalogAtStart[i].entries)
                  \notin { typedModels[i][n] : n \in DOMAIN typedModels[i] }

\* The errors of the awaited calls, which fail for reasons of their own.
ExternalErrors == {"DbtError", "CompileError", CatalogFetchError.name}

\* A finished invocation that found no catalog cached, reached the lazy
\* attempt and in which no awaited call failed.
FreshRun(i) ==
    /\ Done(i)
    /\ ~catalogAtStart[i].defined
    /\ Count(trace[i], "attachTypesToModels") >= 1
    /\ \A k \in DOMAIN trace[i] : trace[i][k] \notin ExternalErrors

\* A valid model has a column that declares no type and that the warehouse has.
NeedsTypeWarehouseHas(i) ==
    \E k \in DOMAIN validModels[i] : \E j \in DOMAIN validModels[i][k].columns :
        /\ validModels[i][k].columns[j].declared = NoType
        /\ HasEntry(warehouse, ModelRef(validModels[i][k]),
                    validModels[i][k].columns[j].name)

\* The warehouse has every column of every valid model.
WarehouseHasAllColumns(i) ==
    \A k \in DOMAIN validModels[i] : \A j \in DOMAIN validModels[i][k].columns :
        HasEntry(warehouse, ModelRef(validModels[i][k]), validModels[i][k].columns[j].name)

\* The lazy attempt misses, one fetch, the strict attempt returns, and the
\* cache is the fetched catalog.
Recovered(i) ==
    /\ trace[i] = << "installDeps", "getDbtManifest", "isSupportedDbtAdapter",
                     "validateDbtModelMetadata", "validateDbtMetrics",
                     "attachTypesToModels", "convertExplores", Missing, "getCatalog",
                     "attachTypesToModels", "convertExplores" >>
    /\ ~outcome[i].threw
    /\ warehouseCatalog = Fetched(CatalogFor(warehouse, catalogRequest[i]))

\* C16, as amended: from no cached catalog, when a valid model needs a column
\* type, the warehouse has every column of every valid model and no awaited
\* call fails, the invocation recovers: lazy miss, exactly one getCatalog
\* call, strict success, a returned list, the fetched catalog cached.
C16_RecoversWhenWarehouseComplete ==
    \A i \in Callers :
        FreshRun(i) /\ NeedsTypeWarehouseHas(i) /\ WarehouseHasAllColumns(i)
            => Recovered(i)

\* C16, as claimed: it recovers whenever a valid model needs a column type
\* that the warehouse has.
C16_RecoversWhenTypeInWarehouse ==
    \A i \in Callers :
        FreshRun(i) /\ NeedsTypeWarehouseHas(i) => Recovered(i)

\* A recovery with the needed column typed from the fetched catalog.
C16_Witness ==
    \E i \in Callers :
        /\ FreshRun(i)
        /\ NeedsTypeWarehouseHas(i)
        /\ Recovered(i)
        /\ \E k \in DOMAIN outcome[i].value :
              /\ ~IsExploreError(outcome[i].value[k])
              /\ \E j \in DOMAIN outcome[i].value[k].dimensions :
                    /\ outcome[i].value[k].dimensions[j].name = "status"
                    /\ outcome[i].value[k].dimensions[j].type
                           = TypeIn(warehouse, OrdersRef, "status")

\* The calls of a trace, without the errors thrown.
CallsOf(calls) == SelectSeq(calls, LAMBDA event : event \in CallNames)

\* The calls of the longest invocation, in the order of the stages.
StageOrder ==
    << "installDeps", "getDbtManifest", "isSupportedDbtAdapter",
       "validateDbtModelMetadata", "validateDbtMetrics", "attachTypesToModels",
       "convertExplores", "getCatalog", "attachTypesToModels", "convertExplores" >>

\* C17: the calls of an invocation are made in the order of the stages:
\* install, manifest, adapter check, model validation, metric validation,
\* type attachment, conversion, and after a refresh attachment and
\* conversion again.  Both validations precede the first attachment, and a
\* pending convertExplores call was given the models the attachTypesToModels
\* call before it returned.
C17_StagesInSequence ==
    \A i \in Callers :
        LET calls == CallsOf(trace[i])
        IN  /\ Len(calls) <= Len(StageOrder)
            /\ calls = SubSeq(StageOrder, 1, Len(calls))
            /\ pc[i] = "convertLazy" =>
                  /\ calls = SubSeq(StageOrder, 1, 7)
                  /\ typedModels[i] =
                         attachTypesToModels(validModels[i], lazyCatalog[i], TRUE).value
            /\ pc[i] = "convertStrict" =>
                  /\ calls = StageOrder
                  /\ typedModels[i] =
                         attachTypesToModels(validModels[i], warehouseCatalog.entries,
                                             FALSE).value

\* The strict conversion is pending: every stage has run.
C17_Witness ==
    \E i \in Callers :
        /\ pc[i] = "convertStrict"
        /\ validModels[i] # <<>>
        /\ failedExplores[i] # <<>>
        /\ metrics[i] # <<>>

\* The first metric of the manifest that fails the metric schema.
FirstInvalidMetric(i) ==
    manifest[i].metrics[CHOOSE k \in InvalidMetrics(i) :
                            \A n \in InvalidMetrics(i) : k <= n]

\* C18: _validateDbtMetrics returns the list it was given, unchanged, when
\* every metric passes; otherwise it throws a ParseError with the unique_id
\* and the diagnostics of the first metric, in the order of the list, that
\* fails, and no list of metrics, not even of those that passed, is produced.
C18_MetricsAllOrNothing ==
    \A i \in Callers :
        Supported(i) =>
            IF InvalidMetrics(i) = {}
            THEN /\ metrics[i] = manifest[i].metrics
                 /\ Count(trace[i], "ParseError") = 0
            ELSE /\ metrics[i] = <<>>
                 /\ outcome[i] =
                        Threw(Error("ParseError",
                            "Could not parse dbt metric with id "
                                \o FirstInvalidMetric(i).unique_id \o ": "
                                \o formatAjvErrors(FirstInvalidMetric(i).ajvErrors)))

\* Two metrics fail and the one thrown for is the first, which is not the
\* first by name.
C18_Witness ==
    \E i \in Callers :
        /\ Supported(i)
        /\ Cardinality(InvalidMetrics(i)) = 2
        /\ FirstInvalidMetric(i) = MetricBad2
        /\ outcome[i].threw

\* A diagnostic as a line "<field path> <message>".
PathThenMessage(err) == err.instancePath \o " " \o err.message

\* A diagnostic as a line 'Field at "<field path>" <message>'.
FieldAtPathThenMessage(err) ==
    "Field at " \o "\"" \o err.instancePath \o "\"" \o " " \o err.message

\* The diagnostics of a model, one line each, in the validator's order.
LinesOf(errors, fieldAt) ==
    Join([k \in DOMAIN errors |->
              IF fieldAt THEN FieldAtPathThenMessage(errors[k])
              ELSE PathThenMessage(errors[k])],
         "\n")

\* The failed explores are those of the invalid models, each with the name
\* of its model and one diagnostic of type MetadataParseError whose message
\* is the diagnostics of that model, each line with "Field at" or without.
FailedExploresFormattedBy(i, fieldAt) ==
    LET failing == FailingModels(manifest[i].nodes)
    IN  /\ Len(failedExplores[i]) = Len(failing)
        /\ \A k \in DOMAIN failing :
              /\ failedExplores[i][k].name = failing[k].name
              /\ Len(failedExplores[i][k].errors) = 1
              /\ failedExplores[i][k].errors[1].type = "MetadataParseError"
              /\ failedExplores[i][k].errors[1].message
                     = LinesOf(failing[k].ajvErrors, fieldAt)

\* C19, as amended: the ExploreError of a model that fails the schema has
\* the model's name and one diagnostic of type MetadataParseError, whose
\* message is all the diagnostics of that very model, in the validator's
\* order, joined by newlines, each as 'Field at "<field path>" <message>'.
C19_DiagnosticsFieldAtPath ==
    \A i \in Callers :
        Supported(i) => FailedExploresFormattedBy(i, TRUE)

\* C19, as claimed: each diagnostic is formatted as "<field path> <message>".
C19_DiagnosticsPathMessage ==
    \A i \in Callers :
        Supported(i) => FailedExploresFormattedBy(i, FALSE)

\* Two invalid models with diagnostics of their own, one of them with two.
C19_Witness ==
    \E i \in Callers :
        /\ Len(failedExplores[i]) = 2
        /\ failedExplores[i][1].name = "events"
        /\ failedExplores[i][2].name = Undefined
        /\ failedExplores[i][1].errors # failedExplores[i][2].errors

\* warehouseClient.runQuery is given a statement only by a step of runQuery,
\* never by a step of compileAllExplores.
RunQueryOnlyFromRunQuery ==
    query' # query => pc' = pc /\ trace' = trace /\ outcome' = outcome

\* A step of runQuery leaves the cached catalog as it is.
RunQueryKeepsCache == query' # query => warehouseCatalog' = warehouseCatalog

\* runQuery has passed its statement to warehouseClient.runQuery, once.
RunQuerySentOnce == query.pc # "idle" => query.sent = << query.sql >>

\* runQuery has settled as warehouseClient.runQuery did.
RunQueryPassesThrough ==
    query.pc = "done" =>
        /\ query.outcome = query.answer
        /\ query.answer \in { Returned(Rows(query.sql)), Threw(QueryError) }

\* C20: no step of compileAllExplores calls warehouseClient.runQuery; the
\* adapter's runQuery calls it exactly once, with the statement it was
\* given, returns what it returns or throws what it throws, and leaves the
\* cached catalog unchanged.
C20_RunQueryPassThrough ==
    /\ [][RunQueryOnlyFromRunQuery /\ RunQueryKeepsCache]_vars
    /\ [](RunQuerySentOnce /\ RunQueryPassesThrough)

\* A query has failed while a compilation that has just cached a fetched
\* catalog waits for its strict conversion.
C20_Witness ==
    /\ query.pc = "done"
    /\ query.outcome = Threw(QueryError)
    /\ query.sql = "SELECT status FROM orders"
    /\ pc[MainCaller] = "convertStrict"
    /\ warehouseCatalog.defined

\* The catalog the warehouse returned to the getCatalog call of invocation i.
OwnCatalog(i) == CatalogFor(warehouse, catalogRequest[i])

\* The cache changes only when the getCatalog call of an invocation
\* resolves, and to the catalog that call returned.
CacheSetByOwnFetch ==
    warehouseCatalog' # warehouseCatalog =>
        \E i \in Callers :
            /\ pc[i] = "getCatalog"
            /\ pc'[i] # "getCatalog"
            /\ warehouseCatalog' =
                   Fetched(CatalogFor(warehouse, catalogRequest'[i]))

\* The cache is undefined or what the warehouse returns for the tables of
\* the valid models of one manifest.
CacheIsOneCatalog ==
    \/ warehouseCatalog = NoCatalog
    \/ \E nodes \in OverlapNodeLists :
          warehouseCatalog =
              Fetched(CatalogFor(warehouse, ValidModelRefs(nodes, dbtAdapterType)))

\* The strict attempt attached the catalog of the invocation's own fetch,
\* whatever the cache holds by now.
StrictUsesOwnCatalog ==
    \A i \in Callers :
        pc[i] = "convertStrict" =>
            typedModels[i] =
                attachTypesToModels(validModels[i], OwnCatalog(i), FALSE).value

\* C21: when invocations overlap, interleaved at their awaits, the cached
\* catalog is always undefined or one whole catalog that a completed
\* getCatalog call returned, never a mix of two, and the strict attempt of
\* an invocation uses the catalog its own getCatalog call returned.
C21_OverlapKeepsCatalogWhole ==
    /\ [][CacheSetByOwnFetch]_vars
    /\ [](CacheIsOneCatalog /\ StrictUsesOwnCatalog)

\* Two invocations wait for their strict conversion after fetching different
\* catalogs; the cache holds the catalog of one of them.
C21_Witness ==
    /\ pc["c1"] = "convertStrict"
    /\ pc["c2"] = "convertStrict"
    /\ OwnCatalog("c1") # OwnCatalog("c2")
    /\ warehouseCatalog = Fetched(OwnCatalog("c2"))

\* The getCatalog call of invocation i rejects in this step.
FetchFailsNow(i) ==
    /\ pc[i] = "getCatalog"
    /\ pc'[i] = "done"
    /\ outcome'[i] = Threw(CatalogFetchError)

\* C22: a getCatalog call that rejects leaves the cache as it is, and the
\* invocation ends with the cache it found when it was called: undefined or
\* the catalog fetched before, whole.
C22_FailedFetchKeepsCache ==
    /\ [][\A i \in Callers : FetchFailsNow(i) => warehouseCatalog' = warehouseCatalog]_vars
    /\ [](\A i \in Callers :
              Done(i) /\ outcome[i] = Threw(CatalogFetchError)
                  => warehouseCatalog = catalogAtStart[i])

\* A fetch for tables that the cached catalog has no entry of has failed, and
\* the cached catalog is still there.
C22_Witness ==
    \E i \in Callers :
        /\ Done(i)
        /\ outcome[i] = Threw(CatalogFetchError)
        /\ warehouseCatalog.entries # {}
        /\ \A e \in warehouseCatalog.entries : e.ref \notin catalogRequest[i]

\* The invocation fetched a catalog and then threw from its strict attempt.
StrictFailed(i) ==
    /\ Done(i)
    /\ outcome[i].threw
    /\ Count(trace[i], "attachTypesToModels") = 2

\* C23: when getCatalog succeeds and the strict attachment or conversion then
\* throws, the invocation throws and the cache holds the fetched catalog;
\* the next invocation finds that catalog cached, and every lazy attempt
\* attaches the catalog its invocation found.
C23_FailedStrictKeepsFetched ==
    /\ [](\A i \in Callers :
              /\ StrictFailed(i) => warehouseCatalog = Fetched(OwnCatalog(i))
              /\ Count(trace[i], "attachTypesToModels") >= 1
                    => lazyCatalog[i] = LazyCatalog(catalogAtStart[i]))
    /\ [][\A i \in Callers :
              StrictFailed(i) /\ pc'[i] = "installDeps"
                  => catalogAtStart'[i] = Fetched(OwnCatalog(i))]_vars

\* The strict attempt failed on a catalog that replaced the cached one.
C23_Witness ==
    \E i \in Callers :
        /\ StrictFailed(i)
        /\ catalogAtStart[i].defined
        /\ warehouseCatalog # catalogAtStart[i]
        /\ outcome[i].error.name = Missing

\* The invocation has what makes it fail before the lazy attempt: a dbt
\* client call that failed, an unsupported adapter type or an invalid metric.
FailsEarly(i) ==
    /\ Done(i)
    /\ \/ outcome[i].error.name = "DbtError"
       \/ /\ manifest[i] # NoManifest
          /\ \/ ~isSupportedDbtAdapter(manifest[i].metadata)
             \/ InvalidMetrics(i) # {}

\* C24: an invocation that fails before the lazy attempt (installDeps,
\* manifest fetch, adapter type, metric) throws without a call of
\* getCatalog, attachTypesToModels or convertExplores, and ends with the
\* cache it found.
C24_EarlyFailureTouchesNothing ==
    \A i \in Callers :
        FailsEarly(i) =>
            /\ outcome[i] = Threw(outcome[i].error)
            /\ outcome[i].error.name \in {"DbtError", "ParseError"}
            /\ Count(trace[i], "getCatalog") = 0
            /\ Count(trace[i], "attachTypesToModels") = 0
            /\ Count(trace[i], "convertExplores") = 0
            /\ catalogRequest[i] = NoRequest
            /\ typedModels[i] = <<>>
            /\ warehouseCatalog = catalogAtStart[i]

\* An invalid metric ended an invocation that found a catalog cached and had
\* valid models to attach types to.
C24_Witness ==
    \E i \in Callers :
        /\ FailsEarly(i)
        /\ InvalidMetrics(i) # {}
        /\ validModels[i] # <<>>
        /\ catalogAtStart[i].entries # {}

\* C25: provided every awaited call settles, an invocation that has started
\* ends, returning a list or throwing an error; and no invocation makes more
\* than two attachTypesToModels calls, two convertExplores calls or one
\* getCatalog call.
C25_InvocationTerminates ==
    /\ \A i \in Callers : InFlight(i) ~> Done(i)
    /\ [](\A i \in Callers :
              /\ Count(trace[i], "attachTypesToModels") <= 2
              /\ Count(trace[i], "convertExplores") <= 2
              /\ Count(trace[i], "getCatalog") <= 1
              /\ Done(i) => \/ outcome[i] = Returned(outcome[i].value)
                            \/ /\ outcome[i] = Threw(outcome[i].error)
                               /\ outcome[i].error # NoError)

\* An invocation has ended after the most calls one can make.
C25_Witness ==
    \E i \in Callers :
        /\ Done(i)
        /\ Count(trace[i], "attachTypesToModels") = 2
        /\ Count(trace[i], "convertExplores") = 2
        /\ Count(trace[i], "getCatalog") = 1
        /\ Len(trace[i]) = 11

====
